---- MODULE Spec2Model ----
(***************************************************************************)
(* Model of set_lost_mode.py: main() validates the command line, prompts   *)
(* for credentials, pre-checks the CSV with csv.reader, then walks the CSV *)
(* with csv.DictReader and posts one EnableLostMode / DisableLostMode      *)
(* command per row.                                                        *)
(***************************************************************************)
EXTENDS Integers, Sequences, FiniteSets, TLC

VARIABLES mode, csv_file, lines, pc, exit_reason, creds, opens,
          device_list, idx, posts, out, returned

vars == <<mode, csv_file, lines, pc, exit_reason, creds, opens,
          device_list, idx, posts, out, returned>>

\* Largest number of lines after the first line of the CSV.
MaxRows == 2

\* Python's None (argparse default, DictReader restval); not a CSV value.
None == "<None>"

\* A blank line of the CSV: csv.reader yields [] for it.
Blank == <<>>

\* First lines of the CSV that are header rows.
Headers ==
    { <<"serial_number", "message", "phone_number", "play_sound">>,
      <<"serial_number", "message", "phone_number">>,
      <<"serial_number">> }

\* Values of the play_sound column.
SoundValues == {"false", "FALSE", "False", "no", ""}

\* Lines after the first line, as csv.reader splits them into fields.
DataLines ==
    { Blank,
      <<"S1">>,
      <<"S1", "Lost", "555">>,
      <<"S2", "", "555">>,
      <<"S2", "Lost", "">>,
      <<"", "Lost", "555">> }
    \cup { <<"S1", "Lost", "555", s>> : s \in SoundValues }

RECURSIVE SeqsUpTo(_, _)
SeqsUpTo(S, n) ==
    IF n = 0 THEN { <<>> }
    ELSE LET shorter == SeqsUpTo(S, n - 1)
         IN  shorter \cup { Append(q, x) : q \in { r \in shorter : Len(r) = n - 1 }, x \in S }

\* Data lines with no more fields than the first line (main() never reads
\* the fields DictReader finds beyond the header).
DataLinesFor(h) == { l \in DataLines : Len(l) <= Len(h) }

\* Contents of the CSV file: empty, or a first line followed by data lines.
Files ==
    { <<>> } \cup
    UNION { { <<h>> \o d : d \in SeqsUpTo(DataLinesFor(h), MaxRows) } :
                h \in Headers \cup {Blank} }

\* Values of --mode and --csv on the command line.
Modes == {None, "enable", "disable", "Enable"}
Paths == {None, "missing.csv", "ipads.csv"}

\* os.path.isfile: the one file that exists.
isfile(path) == path = "ipads.csv"

\* HTTP status codes the service answers with.
Statuses == {201, 304, 404, 500}

\* What requests.post does: returns a response, or raises.
PostOutcomes ==
    [kind : {"response"}, status : Statuses, exc : {""}]
    \cup [kind : {"raise"}, status : {0}, exc : {"ConnectionError", "Timeout"}]

----------------------------------------------------------------------------
(* Pure parts of the program *)

\* main(): the mode check, lines 134-145.
BadModeCheck(m) ==
    IF m = None THEN "no_mode" ELSE "ok"
ModeCheck(m) ==
    IF m = None THEN "no_mode"
    ELSE IF m = "disable" \/ m = "enable" THEN "ok"
    ELSE "bad_mode"

\* main(): the CSV path check, lines 148-155.
CsvCheck(c) ==
    IF c = None THEN "no_csv"
    ELSE IF isfile(c) THEN "ok"
    ELSE "csv_missing"

\* main(): `for _ in reader: device_list = list(reader)`, lines 161-165.
\* The first iteration takes the first row, list(reader) takes the rest.
BadPreCheckList(ls) == ls
PreCheckList(ls) ==
    IF ls = <<>> THEN <<>> ELSE Tail(ls)

\* csv.DictReader: the first row is fieldnames; rows equal to [] are skipped.
fieldnames(ls) == IF ls = <<>> THEN <<>> ELSE ls[1]

NonBlank(l) == l # Blank

DataRows(ls) == IF ls = <<>> THEN <<>> ELSE SelectSeq(Tail(ls), NonBlank)

\* dict(zip(fieldnames, row)), missing values filled with None (restval).
\* Values beyond the header go under the key None, which main() never reads.
RowDict(fn, l) ==
    [c \in { fn[i] : i \in 1..Len(fn) } |->
        LET i == CHOOSE j \in 1..Len(fn) :
                    fn[j] = c /\ \A k \in 1..Len(fn) : fn[k] = c => k <= j
        IN  IF i <= Len(l) THEN l[i] ELSE None]

DictReader(ls) ==
    LET rs == DataRows(ls)
    IN  [i \in 1..Len(rs) |-> RowDict(fieldnames(ls), rs[i])]

\* main(): row["serial_number"], row["message"], row["phone_number"] raise
\* KeyError outside any try, lines 174-176.
RowKeyError(row) ==
    \/ "serial_number" \notin DOMAIN row
    \/ "message" \notin DOMAIN row
    \/ "phone_number" \notin DOMAIN row

\* main(): try row["play_sound"] except KeyError: None, lines 177-181.
RowSound(row) ==
    IF "play_sound" \in DOMAIN row THEN row["play_sound"] ELSE None

\* main(): the play_sound test of lines 186-198, giving the sound argument.
BadSoundArg(sound) ==
    ~(sound = "false" \/ sound = "FALSE" \/ sound = "False")
SoundArg(sound) ==
    ~(sound = "false" \/ sound = "FALSE")

\* ElementTree.tostring writes a None text and an empty text the same way.
Text(v) == IF v = None THEN "" ELSE v

\* enable_lost_mode: the command XML, lines 63-75.
EnablePayload(device_serial, message, phone_number, sound) ==
    [general |->
        << <<"command", "EnableLostMode">>,
           <<"lost_mode_message", Text(message)>>,
           <<"lost_mode_phone", Text(phone_number)>>,
           <<"always_enforce_lost_mode", "true">> >>
        \o (IF sound = TRUE THEN << <<"lost_mode_with_sound", "true">> >> ELSE <<>>),
     mobile_devices |-> << Text(device_serial) >>]

\* disable_lost_mode: the command XML, lines 94-101.
BadDisablePayload(device_serial) ==
    [general |-> << <<"command", "DisableLostMode">>,
                    <<"lost_mode_with_sound", "true">> >>,
     mobile_devices |-> << Text(device_serial) >>]
DisablePayload(device_serial) ==
    [general |-> << <<"command", "DisableLostMode">> >>,
     mobile_devices |-> << Text(device_serial) >>]

NoPayload == [general |-> <<>>, mobile_devices |-> <<>>]

\* Response.raise_for_status raises HTTPError for 4xx and 5xx.
BadRaiseForStatus(status) == status >= 500 /\ status < 600
RaiseForStatus(status) == status >= 400 /\ status < 600

\* Lines printed to the terminal.
HttpErrorLine(status) ==
    [kind |-> "http_error", serial |-> "", status |-> status, payload |-> NoPayload]
PayloadLine(p) ==
    [kind |-> "payload", serial |-> "", status |-> 0, payload |-> p]
RowErrorLine(serial) ==
    [kind |-> "row_error", serial |-> serial, status |-> 0, payload |-> NoPayload]

\* enable_lost_mode / disable_lost_mode after the XML is built, lines 77-88
\* and 103-114: post, print on HTTPError, return the status code.
SendCommand(p, post) ==
    IF post.kind = "raise"
    THEN [raised |-> post.exc, printed |-> <<>>, ret |-> 0]
    ELSE [raised |-> "",
          printed |-> IF RaiseForStatus(post.status)
                      THEN <<HttpErrorLine(post.status), PayloadLine(p)>>
                      ELSE <<>>,
          ret |-> post.status]

\* main(): `except Exception` of lines 199 and 206.
BadExceptException(exc) == exc = "HTTPError"
ExceptException(exc) == exc \in {"ConnectionError", "Timeout", "HTTPError"}

\* main(): the payload of the command a row is turned into, lines 184-208.
RowPayload(m, row) ==
    IF m = "enable"
    THEN EnablePayload(row["serial_number"], row["message"], row["phone_number"],
                       SoundArg(RowSound(row)))
    ELSE DisablePayload(row["serial_number"])

----------------------------------------------------------------------------
(* The run of main() *)

Init ==
    /\ mode \in Modes
    /\ csv_file \in Paths
    /\ lines \in (IF isfile(csv_file) THEN Files ELSE { <<>> })
    /\ pc = "check_mode"
    /\ exit_reason = ""
    /\ creds = 0
    /\ opens = 0
    /\ device_list = <<>>
    /\ idx = 0
    /\ posts = <<>>
    /\ out = <<>>
    /\ returned = 0

\* Lines 133-145.
CheckMode ==
    /\ pc = "check_mode"
    /\ IF ModeCheck(mode) = "ok"
       THEN pc' = "check_csv" /\ UNCHANGED exit_reason
       ELSE pc' = "exit" /\ exit_reason' = ModeCheck(mode)
    /\ UNCHANGED <<mode, csv_file, lines, creds, opens, device_list, idx,
                   posts, out, returned>>

\* Lines 147-155.
CheckCsv ==
    /\ pc = "check_csv"
    /\ IF CsvCheck(csv_file) = "ok"
       THEN pc' = "credentials" /\ UNCHANGED exit_reason
       ELSE pc' = "exit" /\ exit_reason' = CsvCheck(csv_file)
    /\ UNCHANGED <<mode, csv_file, lines, creds, opens, device_list, idx,
                   posts, out, returned>>

\* Line 158.
GetCredentials ==
    /\ pc = "credentials"
    /\ creds' = creds + 1
    /\ pc' = "precheck"
    /\ UNCHANGED <<mode, csv_file, lines, exit_reason, opens, device_list,
                   idx, posts, out, returned>>

\* Lines 160-168.
PreCheck ==
    /\ pc = "precheck"
    /\ opens' = opens + 1
    /\ device_list' = PreCheckList(lines)
    /\ IF Len(PreCheckList(lines)) = 0
       THEN pc' = "exit" /\ exit_reason' = "no_items"
       ELSE pc' = "open_loop" /\ UNCHANGED exit_reason
    /\ UNCHANGED <<mode, csv_file, lines, creds, idx, posts, out, returned>>

\* Lines 171-172.
OpenLoop ==
    /\ pc = "open_loop"
    /\ opens' = opens + 1
    /\ pc' = "loop"
    /\ UNCHANGED <<mode, csv_file, lines, exit_reason, creds, device_list,
                   idx, posts, out, returned>>

\* Lines 173-208: one iteration of `for row in reader`.
DispatchRow ==
    /\ pc = "loop"
    /\ idx < Len(DictReader(lines))
    /\ LET row == DictReader(lines)[idx + 1]
       IN  IF RowKeyError(row)
           THEN /\ pc' = "crash"
                /\ exit_reason' = "KeyError"
                /\ UNCHANGED <<idx, posts, out, returned>>
           ELSE \E post \in PostOutcomes :
                  LET p == RowPayload(mode, row)
                      r == SendCommand(p, post)
                  IN  /\ posts' = Append(posts, [row |-> idx + 1, payload |-> p,
                                                  kind |-> post.kind,
                                                  status |-> post.status])
                      /\ IF r.raised = ""
                         THEN /\ out' = out \o r.printed
                              /\ returned' = r.ret
                              /\ idx' = idx + 1
                              /\ UNCHANGED <<pc, exit_reason>>
                         ELSE IF ExceptException(r.raised)
                         THEN /\ out' = Append(out, RowErrorLine(row["serial_number"]))
                              /\ idx' = idx + 1
                              /\ UNCHANGED <<pc, exit_reason, returned>>
                         ELSE /\ pc' = "crash"
                              /\ exit_reason' = r.raised
                              /\ UNCHANGED <<idx, out, returned>>
    /\ UNCHANGED <<mode, csv_file, lines, creds, opens, device_list>>

\* The DictReader is exhausted: main() returns.
Finish ==
    /\ pc = "loop"
    /\ idx = Len(DictReader(lines))
    /\ pc' = "done"
    /\ UNCHANGED <<mode, csv_file, lines, exit_reason, creds, opens,
                   device_list, idx, posts, out, returned>>

Next ==
    \/ CheckMode
    \/ CheckCsv
    \/ GetCredentials
    \/ PreCheck
    \/ OpenLoop
    \/ DispatchRow
    \/ Finish

Spec == Init /\ [][Next]_vars

----------------------------------------------------------------------------
(* Vocabulary of the properties *)

Rows == DictReader(lines)

Terminal == pc \in {"done", "exit", "crash"}

\* Exit status of the process: sys.exit(1) and an uncaught exception give 1.
ExitCode == IF pc \in {"exit", "crash"} THEN 1 ELSE 0

HasTag(p, tag) == \E i \in 1..Len(p.general) : p.general[i][1] = tag

IsRowError(l) == l.kind = "row_error"
IsHttpReport(l) == l.kind \in {"http_error", "payload"}
IsRaise(e) == e.kind = "raise"
IsResponse(e) == e.kind = "response"

RowErrors == SelectSeq(out, IsRowError)
HttpReports == SelectSeq(out, IsHttpReport)
Raises == SelectSeq(posts, IsRaise)
Responses == SelectSeq(posts, IsResponse)

\* Every row of the input has exactly one post, in input order.
OnePostPerRow ==
    /\ Len(posts) = Len(Rows)
    /\ \A i \in 1..Len(posts) : posts[i].row = i

----------------------------------------------------------------------------
(* Properties *)

\* C1: when the post of row k raises, the exception does not end the run:
\* a row error naming row k's serial number is printed (one per raised post,
\* in order), the loop moves past row k, and the run can only end by
\* returning from main() with every row posted; in both modes.
C1_RaiseIsIsolated ==
    /\ Len(RowErrors) = Len(Raises)
    /\ \A i \in 1..Len(Raises) :
          /\ RowErrors[i].serial = Rows[Raises[i].row]["serial_number"]
          /\ idx >= Raises[i].row
    /\ Raises # <<>> => /\ pc \in {"loop", "done"}
                        /\ exit_reason = ""
                        /\ pc = "done" => OnePostPerRow

C1_Witness ==
    /\ pc = "done"
    /\ Len(posts) = 2
    /\ posts[1].kind = "raise"
    /\ posts[2].kind = "response"
    /\ Len(RowErrors) = 1

\* The columns the module docstring requires for the mode are in the header.
RequiredColumns ==
    IF mode = "enable" THEN {"serial_number", "message", "phone_number"}
    ELSE {"serial_number"}

HeaderHasRequired ==
    /\ lines # <<>>
    /\ RequiredColumns \subseteq { lines[1][i] : i \in 1..Len(lines[1]) }

InvalidEnableRow(row) ==
    \E c \in {"serial_number", "message", "phone_number"} :
        c \notin DOMAIN row \/ row[c] = "" \/ row[c] = None

\* C2 (as claimed): under enable, a row whose serial_number, message or
\* phone_number is absent or empty gets no HTTP request and a recorded
\* failure, and the run goes on (stated for a CSV whose header has the
\* three required columns).
C2_InvalidRowNotSent ==
    (mode = "enable" /\ HeaderHasRequired) =>
        /\ \A i \in 1..Len(posts) : ~InvalidEnableRow(Rows[posts[i].row])
        /\ pc # "crash"
        /\ pc = "done" =>
              Len(RowErrors) >= Cardinality({ i \in 1..Len(Rows) : InvalidEnableRow(Rows[i]) })

\* C3 (as claimed): under disable, a CSV with only a serial_number column is
\* accepted: the run does not abort and every row gets one DisableLostMode
\* request for its serial number.
SerialOnlyCsv ==
    /\ Len(lines) >= 2
    /\ lines[1] = <<"serial_number">>
    /\ \A i \in 2..Len(lines) : Len(lines[i]) = 1

C3_SerialOnlyDisable ==
    (mode = "disable" /\ SerialOnlyCsv) =>
        /\ pc # "crash"
        /\ pc = "done" =>
              /\ OnePostPerRow
              /\ \A i \in 1..Len(posts) :
                    /\ posts[i].payload.general[1] = <<"command", "DisableLostMode">>
                    /\ posts[i].payload.mobile_devices = << lines[i + 1][1] >>

\* The HTTP error reports of the run are those of the failed responses in
\* order: the error with the status, then the payload that was sent.
ReportsMatch(failed) ==
    /\ Len(HttpReports) = 2 * Len(failed)
    /\ \A i \in 1..Len(failed) :
          /\ HttpReports[2 * i - 1].kind = "http_error"
          /\ HttpReports[2 * i - 1].status = failed[i].status
          /\ HttpReports[2 * i].kind = "payload"
          /\ HttpReports[2 * i].payload = failed[i].payload

\* A response never ends the run: the status code is returned, the loop
\* moves on, and main() can only end with every row posted.
ResponseReturns ==
    /\ Responses # <<>> =>
          /\ returned = Responses[Len(Responses)].status
          /\ pc \in {"loop", "done"}
          /\ pc = "done" => OnePostPerRow
    /\ \A i \in 1..Len(posts) : idx >= posts[i].row

Non2xx(e) == e.kind = "response" /\ ~(e.status >= 200 /\ e.status < 300)
Is4xx5xx(e) == e.kind = "response" /\ e.status >= 400 /\ e.status < 600

ZeroDataRows == Len(lines) <= 1

ConfigOk ==
    /\ mode \in {"enable", "disable"}
    /\ csv_file # None
    /\ isfile(csv_file)

C5_EmptyBatch ==
    ZeroDataRows =>
        /\ posts = <<>>
        /\ out = <<>>
        /\ pc \notin {"open_loop", "loop", "done", "crash"}
        /\ (ConfigOk /\ Terminal) =>
              pc = "exit" /\ exit_reason = "no_items" /\ ExitCode = 1

C5_Witness ==
    /\ Len(lines) = 1
    /\ lines[1] \in Headers
    /\ pc = "exit"
    /\ exit_reason = "no_items"
    /\ opens = 1

\* C6: with no mode, a mode other than 'enable' or 'disable', no CSV path or
\* a path that is not a file, the run never asks for credentials, never
\* opens the input and never posts; it can only end in a configuration exit
\* with exit status 1.
C6_ConfigErrorIsFatal ==
    ~ConfigOk =>
        /\ creds = 0
        /\ opens = 0
        /\ posts = <<>>
        /\ out = <<>>
        /\ pc \in {"check_mode", "check_csv", "exit"}
        /\ Terminal =>
              /\ exit_reason \in {"no_mode", "bad_mode", "no_csv", "csv_missing"}
              /\ ExitCode = 1

C6_Witness ==
    /\ mode = "Enable"
    /\ csv_file = "ipads.csv"
    /\ Len(lines) >= 2
    /\ pc = "exit"
    /\ exit_reason = "bad_mode"

\* C7: every payload posted under enable carries lost_mode_with_sound
\* (with the text "true") exactly when the row's play_sound is not the
\* string "false" or "FALSE"; an absent column counts as not "false".
C7_SoundMarker ==
    mode = "enable" =>
        \A i \in 1..Len(posts) :
            LET p == posts[i].payload
                row == Rows[posts[i].row]
                sound == IF "play_sound" \in DOMAIN row THEN row["play_sound"] ELSE None
            IN  /\ HasTag(p, "lost_mode_with_sound") <=> sound \notin {"false", "FALSE"}
                /\ \A j \in 1..Len(p.general) :
                      p.general[j][1] = "lost_mode_with_sound" => p.general[j][2] = "true"

C7_Witness ==
    /\ mode = "enable"
    /\ Len(posts) = 2
    /\ Len(lines) = 3
    /\ lines[1] = <<"serial_number", "message", "phone_number", "play_sound">>
    /\ Rows[1]["play_sound"] = "False"
    /\ HasTag(posts[1].payload, "lost_mode_with_sound")
    /\ Rows[2]["play_sound"] = "FALSE"
    /\ ~HasTag(posts[2].payload, "lost_mode_with_sound")

\* C8 (as claimed): the outcomes follow input order, one per row, at most
\* one post per row: for a CSV whose header has the columns the mode
\* requires, when the run has ended after the pre-check passed, every row
\* has exactly one post, in input order.
C8_OneOutcomePerRow ==
    HeaderHasRequired =>
        /\ \A i \in 1..Len(posts) : posts[i].row = i
        /\ Len(posts) <= Len(Rows)
        /\ pc \in {"done", "crash"} => OnePostPerRow

\* C9: every payload posted under disable is exactly the DisableLostMode
\* command for the row's serial number, whatever else the row carries.
C9_DisablePayload ==
    mode = "disable" =>
        \A i \in 1..Len(posts) :
            LET p == posts[i].payload
                row == Rows[posts[i].row]
            IN  /\ p.general = << <<"command", "DisableLostMode">> >>
                /\ p.mobile_devices = << row["serial_number"] >>
                /\ \A t \in {"lost_mode_message", "lost_mode_phone",
                             "always_enforce_lost_mode", "lost_mode_with_sound"} :
                      ~HasTag(p, t)

C9_Witness ==
    /\ mode = "disable"
    /\ Len(posts) = 1
    /\ Len(lines) >= 2
    /\ lines[1] = <<"serial_number", "message", "phone_number", "play_sound">>
    /\ Rows[1]["message"] = "Lost"
    /\ Rows[1]["play_sound"] = "false"
    /\ posts[1].payload.mobile_devices = <<"S1">>

\* C10 (as claimed): when the pre-check passes, the dispatch loop iterates
\* over at least one row (stated for a CSV that starts with a header row).
C10_PreCheckAgreesWithLoop ==
    (lines # <<>> /\ lines[1] \in Headers /\ pc \in {"open_loop", "loop", "done", "crash"})
        => Len(Rows) >= 1

====
